---- MODULE Spec2Model ----
(***************************************************************************)
(* Model of aoetelegrambot.py: one invocation of main() after another,     *)
(* sharing the status file mostrecentmatch.json.                           *)
(*                                                                         *)
(* Text is a sequence of atoms.  An atom is either one character that the  *)
(* program treats specially ('*', '\', the MarkdownV2 reserved characters) *)
(* or a run of characters none of which is special.  escape_markdown and   *)
(* str.replace work character by character, so on such text they work atom *)
(* by atom.                                                                *)
(***************************************************************************)
EXTENDS Integers, Sequences, FiniteSets, TLC

\* Number of entries of Config.PLAYERS the model tracks.
NumPlayers == 2

\* Config.PLAYERS, names only (the api_url is only the address of the fetch).
PLAYERS == <<"Carpincho", "alanthekat", "thexcarpincho", "Dicopato",
             "Dicopatito", "Nanox", "Sir Monkey">>

Players == SubSeq(PLAYERS, 1, NumPlayers)

Names == {Players[k] : k \in 1..Len(Players)}

\* A key of the status file that is no configured player (left by an older
\* configuration).
Ghost == "Ghost"

\* Hours America/Argentina/Buenos_Aires is behind UTC.
TIMEZONE == 3

----------------------------------------------------------------------------
\* Text helpers

BS == "\\"

\* r'_*[]()~`>#+-=|{}.!' ; the grave accent is written GRAVE
escape_chars == {"_", "*", "[", "]", "(", ")", "~", "GRAVE", ">", "#", "+",
                 "-", "=", "|", "{", "}", ".", "!"}

RECURSIVE escape_markdown(_)
escape_markdown(text) ==
    IF text = <<>> THEN <<>>
    ELSE (IF Head(text) \in escape_chars THEN <<BS, Head(text)>>
                                         ELSE <<Head(text)>>)
         \o escape_markdown(Tail(text))

\* str.replace(old, '') for a one-character old
RECURSIVE Remove(_, _)
Remove(text, old) ==
    IF text = <<>> THEN <<>>
    ELSE (IF Head(text) = old THEN <<>> ELSE <<Head(text)>>)
         \o Remove(Tail(text), old)

RECURSIVE Join(_, _)
Join(sep, parts) ==
    IF parts = <<>> THEN <<>>
    ELSE IF Len(parts) = 1 THEN parts[1]
    ELSE parts[1] \o <<sep>> \o Join(sep, Tail(parts))

TwoDigits(n) == <<ToString(n \div 10), ToString(n % 10)>>

FourDigits(n) == TwoDigits(n \div 100) \o TwoDigits(n % 100)

----------------------------------------------------------------------------
\* The 'finished' field of a match and its conversion

\* A value of match['finished']:
\*   absent  - key missing, null or ""          (falsy)
\*   number  - a JSON number other than 0       (truthy, not a str)
\*   text    - a string that is no ISO-8601 timestamp
\*   iso     - a string "YYYY-MM-DDTHH:MM:00Z" with the given field values
Fin(kind, y, mo, d, h, mi) ==
    [kind |-> kind, y |-> y, mo |-> mo, d |-> d, h |-> h, mi |-> mi]

FinAbsent == Fin("absent", 0, 0, 0, 0, 0)
FinText == Fin("text", 0, 0, 0, 0, 0)
FinExample == Fin("iso", 2024, 1, 1, 14, 5)

IsLeap(y) == (y % 4 = 0 /\ y % 100 # 0) \/ y % 400 = 0

DaysInMonth(y, mo) ==
    IF mo = 2 THEN (IF IsLeap(y) THEN 29 ELSE 28)
    ELSE IF mo \in {4, 6, 9, 11} THEN 30 ELSE 31

\* datetime.fromisoformat raises ValueError
fromisoformat_ValueError(f) ==
    \/ f.kind = "text"
    \/ /\ f.kind = "iso"
       /\ \/ f.mo \notin 1..12
          \/ f.d \notin 1..DaysInMonth(f.y, f.mo)
          \/ f.h \notin 0..23
          \/ f.mi \notin 0..59

\* utc_dt.astimezone(timezone) for a zone TIMEZONE hours behind UTC
astimezone(f) ==
    IF f.h >= TIMEZONE THEN [f EXCEPT !.h = f.h - TIMEZONE]
    ELSE IF f.d > 1 THEN [f EXCEPT !.h = f.h + 24 - TIMEZONE, !.d = f.d - 1]
    ELSE IF f.mo > 1
         THEN [f EXCEPT !.h = f.h + 24 - TIMEZONE, !.mo = f.mo - 1,
                        !.d = DaysInMonth(f.y, f.mo - 1)]
    ELSE [f EXCEPT !.h = f.h + 24 - TIMEZONE, !.y = f.y - 1, !.mo = 12,
                   !.d = 31]

\* local_dt.strftime("%H:%M on %Y-%m-%d")
strftime(t) ==
    TwoDigits(t.h) \o <<":">> \o TwoDigits(t.mi) \o <<" on ">>
    \o FourDigits(t.y) \o <<"-">> \o TwoDigits(t.mo) \o <<"-">>
    \o TwoDigits(t.d)

----------------------------------------------------------------------------
\* Mappings name -> text (a Python dict, a JSON object)

EmptyMap == [k \in {} |-> <<>>]

\* Variant: the assignment drops the keys set before.
Put_forgets(m, k, v) == [x \in {k} |-> v]

Put(m, k, v) == [x \in DOMAIN m \cup {k} |-> IF x = k THEN v ELSE m[x]]

----------------------------------------------------------------------------
\* What one GET of a player's api_url can come to

Payload(shape, matches) == [shape |-> shape, matches |-> matches]

NoPayload == Payload("none", <<>>)

Match(f) == [finished |-> f]

Outcome(fetch, payload) == [fetch |-> fetch, payload |-> payload]

NoOutcome == Outcome("none", NoPayload)

\* fetch: ClientError      session.get or raise_for_status or the content type
\*                         check of response.json raises aiohttp.ClientError
\*        JSONDecodeError  response.json raises json.JSONDecodeError
\*        TimeoutError     the client's total timeout raises
\*                         asyncio.TimeoutError, which is no ClientError
\*        json             response.json returns the payload
\* payload shape: object (a JSON object), other (a JSON array, null, ...)
Outcomes ==
    { Outcome("ClientError", NoPayload),
      Outcome("JSONDecodeError", NoPayload),
      Outcome("TimeoutError", NoPayload),
      Outcome("json", Payload("other", <<>>)),
      Outcome("json", Payload("object", <<>>)),
      Outcome("json", Payload("object", <<Match(FinAbsent), Match(FinExample)>>)),
      Outcome("json", Payload("object", <<Match(FinExample)>>)),
      Outcome("json", Payload("object", <<Match(FinText)>>)) }

Result(name, tag, error, data) ==
    [player_name |-> name, tag |-> tag, error |-> error, data |-> data]

NoResult == Result("", "none", <<>>, NoPayload)

\* fetch_player_data, for an outcome it returns from
fetch_player_data(name, o) ==
    IF o.fetch = "json" THEN Result(name, "data", <<>>, o.payload)
    ELSE IF o.fetch = "ClientError"
         THEN Result(name, "error", <<"API request failed">>, NoPayload)
    ELSE Result(name, "error", <<"Invalid JSON response">>, NoPayload)

\* fetch_player_data lets the exception out
fetch_raises(o) == o.fetch \notin {"json", "ClientError", "JSONDecodeError"}

----------------------------------------------------------------------------
\* process_player_data

Bold(name) == <<"*">> \o escape_markdown(<<name>>) \o <<"*">>

\* data.get on a payload that is no dict, or finished_raw.replace on a value that
\* is no str: AttributeError, which process_player_data does not catch
process_raises(r) ==
    /\ r.tag = "data"
    /\ \/ r.data.shape # "object"
       \/ /\ r.data.matches # <<>>
          /\ r.data.matches[1].finished.kind = "number"

\* Variant: the ValueError branch returns the message of the else branch.
InvalidFinishTime_playing(name) ==
    Bold(name) \o <<" is playing now", BS, ".">>

InvalidFinishTime(name) ==
    Bold(name) \o <<" has a match with an invalid finish time">>

process_player_data(r) ==
    IF r.tag = "error"
    THEN Bold(r.player_name) \o <<" encountered an error: ">>
         \o escape_markdown(r.error)
    ELSE IF r.data.matches = <<>>
    THEN Bold(r.player_name) \o <<" has no recent matches">>
    ELSE LET finished_raw == r.data.matches[1].finished IN
         IF finished_raw.kind = "absent"
         THEN Bold(r.player_name) \o <<" is playing now", BS, ".">>
         ELSE IF fromisoformat_ValueError(finished_raw)
         THEN InvalidFinishTime(r.player_name)
         ELSE Bold(r.player_name) \o <<" finished playing at ">>
              \o escape_markdown(strftime(astimezone(finished_raw)))

\* status_message.replace('*', '').replace('\\', '')
clean_status(status_message) == Remove(Remove(status_message, "*"), BS)

\* Variant: every status counts as changed.
differs_always(previous, name, clean) == TRUE

\* Variant: a name without an entry counts as unchanged.
differs_only_known(previous, name, clean) ==
    name \in DOMAIN previous /\ previous[name] # clean

\* previous_statuses.get(player_name) != clean_status
differs(previous, name, clean) ==
    ~(name \in DOMAIN previous /\ previous[name] = clean)

----------------------------------------------------------------------------
\* State

VARIABLES
    file,               \* content of Config.STATUS_FILE
    pc,                 \* where main() is: idle (not started), init, load,
                        \* fetch, process, notify, done (returned), crashed
                        \* (left by an exception)
    credentials,        \* which of TELEGRAM_BOT_TOKEN, TELEGRAM_CHAT_ID are set
    previous_statuses,  \* main's local
    current_statuses,   \* main's local
    changed_statuses,   \* main's local
    task,               \* per player: what its fetch_player_data returned
    completion,         \* names in the order in which their fetches completed
                        \* (kept until the loop over the results is over)
    results,            \* main's local
    idx,                \* number of results the for loop has handled
    crashed_by,         \* none | fetch | process | diff
    loaded,             \* what load_previous_statuses met: none | absent |
                        \* corrupt | other | object | ioerror
    writeResult,        \* save_current_statuses: none | ok | failed
    sendResult,         \* bot.send_message: none | ok | failed
    delivered,          \* text Telegram accepted in this run
    effects,            \* this run's HTTP GETs, file reads, file writes, sends
    lastFetched,        \* per player: the outcome of its latest fetch
    same,               \* per player, in this run: unfetched, or whether the
                        \* outcome of its fetch is that of its fetch before
    prevSaved,          \* writeResult of the run before this one
    undelivered         \* per player: an earlier run found a change for it and
                        \* failed to send, and its fetches have come to the
                        \* same since: kept (the snapshot written by that run
                        \* has been written and read without failure since),
                        \* lost (some write or read of it failed); else no

vars == <<file, pc, credentials, previous_statuses, current_statuses,
          changed_statuses, task, completion, results, idx, crashed_by,
          loaded, writeResult, sendResult, delivered, effects, lastFetched,
          same, prevSaved, undelivered>>

File(kind, map) == [kind |-> kind, map |-> map]

Loaded(kind, map) == [kind |-> kind, map |-> map]

StaleStatus == clean_status(process_player_data(
                   Result(Ghost, "data", <<>>, Payload("object", <<>>))))

\* The status file before the first run: missing, not JSON, JSON but no
\* object, or an object written under an older configuration.
InitialFiles ==
    { File("absent", EmptyMap), File("corrupt", EmptyMap),
      File("other", EmptyMap), File("object", EmptyMap),
      File("object", Put(EmptyMap, Ghost, StaleStatus)) }

NoEffects == [http |-> 0, reads |-> 0, writes |-> 0, sends |-> 0]

Init ==
    /\ file \in InitialFiles
    /\ pc = "idle"
    /\ credentials = [token |-> FALSE, chat_id |-> FALSE]
    /\ previous_statuses = Loaded("dict", EmptyMap)
    /\ current_statuses = EmptyMap
    /\ changed_statuses = <<>>
    /\ task = [p \in Names |-> NoResult]
    /\ completion = <<>>
    /\ results = <<>>
    /\ idx = 0
    /\ crashed_by = "none"
    /\ loaded = "none"
    /\ writeResult = "none"
    /\ sendResult = "none"
    /\ delivered = <<>>
    /\ effects = NoEffects
    /\ lastFetched = [p \in Names |-> NoOutcome]
    /\ same = [p \in Names |-> "unfetched"]
    /\ prevSaved = "none"
    /\ undelivered = [p \in Names |-> "no"]

\* The display message of p is in the changed-set.
InChanged(p) ==
    /\ task[p] # NoResult
    /\ ~process_raises(task[p])
    /\ \E k \in 1..Len(changed_statuses) :
           changed_statuses[k] = process_player_data(task[p])

----------------------------------------------------------------------------
\* Actions

\* asyncio.run(main()): a new process, with the environment it is given.
\* undelivered[p] becomes "kept" when the run that ends here found a change for
\* p, wrote the snapshot and failed to send; "lost" when it found a change for
\* p, failed to write the snapshot and failed to send.
StartRun(token, chat_id) ==
    /\ pc \in {"idle", "done", "crashed"}
    /\ pc' = "init"
    /\ credentials' = [token |-> token, chat_id |-> chat_id]
    /\ previous_statuses' = Loaded("dict", EmptyMap)
    /\ current_statuses' = EmptyMap
    /\ changed_statuses' = <<>>
    /\ task' = [p \in Names |-> NoResult]
    /\ completion' = <<>>
    /\ results' = <<>>
    /\ idx' = 0
    /\ crashed_by' = "none"
    /\ loaded' = "none"
    /\ writeResult' = "none"
    /\ sendResult' = "none"
    /\ delivered' = <<>>
    /\ effects' = NoEffects
    /\ same' = [p \in Names |-> "unfetched"]
    /\ prevSaved' = writeResult
    /\ undelivered' = [p \in Names |->
           IF sendResult = "failed" /\ InChanged(p)
           THEN (IF writeResult = "ok" THEN "kept" ELSE "lost")
           ELSE undelivered[p]]
    /\ UNCHANGED <<file, lastFetched>>

\* Variant: "and" in place of "or".
credentials_missing_both(c) == ~c.token /\ ~c.chat_id

\* not config.TELEGRAM_BOT_TOKEN or not config.TELEGRAM_CHAT_ID
credentials_missing(c) == ~c.token \/ ~c.chat_id

CheckCredentials ==
    /\ pc = "init"
    /\ pc' = IF credentials_missing(credentials) THEN "done" ELSE "load"
    /\ UNCHANGED <<file, credentials, previous_statuses, current_statuses,
                   changed_statuses, task, completion, results, idx,
                   crashed_by, loaded, writeResult, sendResult, delivered,
                   effects, lastFetched, same, prevSaved, undelivered>>

\* load_previous_statuses(f, ioerror): what the call returns for file content
\* f; ioerror: opening or reading an existing file raises IOError
load_previous_statuses(f, ioerror) ==
    IF f.kind = "absent" THEN Loaded("dict", EmptyMap)
    ELSE IF ioerror \/ f.kind = "corrupt" THEN Loaded("dict", EmptyMap)
    ELSE IF f.kind = "object" THEN Loaded("dict", f.map)
    ELSE Loaded("other", EmptyMap)

LoadPreviousStatuses(ioerror) ==
    /\ pc = "load"
    /\ ioerror => file.kind # "absent"
    /\ previous_statuses' = load_previous_statuses(file, ioerror)
    /\ loaded' = IF ioerror THEN "ioerror" ELSE file.kind
    /\ effects' = IF file.kind = "absent" THEN effects
                  ELSE [effects EXCEPT !.reads = @ + 1]
    /\ undelivered' = IF ioerror
                      THEN [p \in Names |->
                               IF undelivered[p] = "kept" THEN "lost"
                               ELSE undelivered[p]]
                      ELSE undelivered
    /\ pc' = "fetch"
    /\ UNCHANGED <<file, credentials, current_statuses, changed_statuses,
                   task, completion, results, idx, crashed_by, writeResult,
                   sendResult, delivered, lastFetched, same, prevSaved>>

\* One task of the gather: the GET of p's api_url comes to outcome o.  An
\* exception fetch_player_data does not catch leaves gather and main at once.
\* A change of p's outcome ends what undelivered[p] records.
FetchPlayerData(p, o) ==
    /\ pc = "fetch"
    /\ task[p] = NoResult
    /\ effects' = [effects EXCEPT !.http = @ + 1]
    /\ lastFetched' = [lastFetched EXCEPT ![p] = o]
    /\ same' = [same EXCEPT ![p] = IF o = lastFetched[p] THEN "same" ELSE "diff"]
    /\ undelivered' = [undelivered EXCEPT ![p] =
                           IF o = lastFetched[p] THEN @ ELSE "no"]
    /\ IF fetch_raises(o)
       THEN /\ pc' = "crashed"
            /\ crashed_by' = "fetch"
            /\ UNCHANGED <<task, completion>>
       ELSE /\ task' = [task EXCEPT ![p] = fetch_player_data(p, o)]
            /\ completion' = Append(completion, p)
            /\ UNCHANGED <<pc, crashed_by>>
    /\ UNCHANGED <<file, credentials, previous_statuses, current_statuses,
                   changed_statuses, results, idx, loaded, writeResult,
                   sendResult, delivered, prevSaved>>

\* Variant: the results in the order of completion (asyncio.as_completed).
gather_as_completed(tasks, order) == [k \in 1..Len(order) |-> tasks[order[k]]]

\* asyncio.gather(*tasks): the results in the order of the tasks
gather(tasks, order) == [k \in 1..Len(Players) |-> tasks[Players[k]]]

Gather ==
    /\ pc = "fetch"
    /\ \A p \in Names : task[p] # NoResult
    /\ results' = gather(task, completion)
    /\ idx' = 0
    /\ pc' = "process"
    /\ UNCHANGED <<file, credentials, previous_statuses, current_statuses,
                   changed_statuses, task, completion, crashed_by, loaded, writeResult,
                   sendResult, delivered, effects, lastFetched, same,
                   prevSaved, undelivered>>

\* One pass of the for loop of main
ProcessResult ==
    /\ pc = "process"
    /\ idx < Len(results)
    /\ LET result == results[idx + 1]
           player_name == result.player_name
       IN IF process_raises(result)
          THEN /\ pc' = "crashed"
               /\ crashed_by' = "process"
               /\ UNCHANGED <<current_statuses, changed_statuses, idx>>
          ELSE LET status_message == process_player_data(result)
                   clean == clean_status(status_message)
               IN /\ current_statuses' = Put(current_statuses, player_name, clean)
                  /\ IF previous_statuses.kind # "dict"
                     THEN /\ pc' = "crashed"
                          /\ crashed_by' = "diff"
                          /\ UNCHANGED <<changed_statuses, idx>>
                     ELSE /\ changed_statuses' =
                                 IF differs(previous_statuses.map, player_name, clean)
                                 THEN Append(changed_statuses, status_message)
                                 ELSE changed_statuses
                          /\ idx' = idx + 1
                          /\ UNCHANGED <<pc, crashed_by>>
    /\ UNCHANGED <<file, credentials, previous_statuses, task, completion,
                   results, loaded, writeResult, sendResult, delivered,
                   effects, lastFetched, same, prevSaved, undelivered>>

\* Variant: the file is written before the statuses are filled in.
saved_file_empty(statuses) == File("object", EmptyMap)

\* What save_current_statuses leaves in the file when the write succeeds
saved_file(statuses) == File("object", statuses)

\* save_current_statuses; when the write fails the file is as it was (open
\* failed) or cut short (json.dump failed).
SaveCurrentStatuses(ok, cut) ==
    /\ pc = "process"
    /\ idx = Len(results)
    /\ ok => ~cut
    /\ file' = IF ok THEN saved_file(current_statuses)
               ELSE IF cut THEN File("corrupt", EmptyMap)
               ELSE file
    /\ writeResult' = IF ok THEN "ok" ELSE "failed"
    /\ effects' = [effects EXCEPT !.writes = @ + 1]
    /\ undelivered' = IF ok THEN undelivered
                      ELSE [p \in Names |->
                               IF undelivered[p] = "kept" THEN "lost"
                               ELSE undelivered[p]]
    /\ completion' = <<>>
    /\ pc' = "notify"
    /\ UNCHANGED <<credentials, previous_statuses, current_statuses,
                   changed_statuses, task, results, idx, crashed_by, loaded,
                   sendResult, delivered, lastFetched, same, prevSaved>>

\* if not changed_statuses: return
NothingToSend ==
    /\ pc = "notify"
    /\ changed_statuses = <<>>
    /\ pc' = "done"
    /\ UNCHANGED <<file, credentials, previous_statuses, current_statuses,
                   changed_statuses, task, completion, results, idx,
                   crashed_by, loaded, writeResult, sendResult, delivered,
                   effects, lastFetched, same, prevSaved, undelivered>>

\* Variant: a failed send is tried again.
after_send_retry(ok) == IF ok THEN "done" ELSE "notify"

\* Where main goes after bot.send_message returned (ok) or raised TelegramError
after_send(ok) == "done"

SendMessage(ok) ==
    /\ pc = "notify"
    /\ changed_statuses # <<>>
    /\ effects' = [effects EXCEPT !.sends = @ + 1]
    /\ sendResult' = IF ok THEN "ok" ELSE "failed"
    /\ delivered' = IF ok THEN Join("\n\n", changed_statuses) ELSE delivered
    /\ pc' = after_send(ok)
    /\ UNCHANGED <<file, credentials, previous_statuses, current_statuses,
                   changed_statuses, task, completion, results, idx,
                   crashed_by, loaded, writeResult, lastFetched, same,
                   prevSaved, undelivered>>

Next ==
    \/ \E token, chat_id \in BOOLEAN : StartRun(token, chat_id)
    \/ CheckCredentials
    \/ \E ioerror \in BOOLEAN : LoadPreviousStatuses(ioerror)
    \/ \E p \in Names, o \in Outcomes : FetchPlayerData(p, o)
    \/ Gather
    \/ ProcessResult
    \/ \E ok, cut \in BOOLEAN : SaveCurrentStatuses(ok, cut)
    \/ NothingToSend
    \/ \E ok \in BOOLEAN : SendMessage(ok)

Spec == Init /\ [][Next]_vars

----------------------------------------------------------------------------
\* Properties

\* The for loop of main has handled every result.
LoopDone == results # <<>> /\ idx = Len(results)

\* The for loop of main has handled p's result.
Processed(p) == \E k \in 1..idx : results[k].player_name = p

\* The fetch of every player came to what its fetch in the run before came to.
SameUpstream == \A p \in Names : same[p] = "same"

\* C1 as stated: when the run before reached its save and every fetch of this run
\* comes to what it came to in the run before, this run's changed-set is empty.
C1_Original ==
    (LoopDone /\ prevSaved # "none" /\ SameUpstream) => changed_statuses = <<>>

\* C1 amended: when the run before wrote the status file, this run read it back
\* and every fetch of this run comes to what it came to in the run before, this
\* run's changed-set is empty and it sends nothing.
C1_Idempotent ==
    (LoopDone /\ prevSaved = "ok" /\ loaded = "object" /\ SameUpstream)
        => (changed_statuses = <<>> /\ effects.sends = 0)

C1_Witness ==
    /\ pc = "done"
    /\ prevSaved = "ok"
    /\ loaded = "object"
    /\ SameUpstream
    /\ changed_statuses = <<>>
    /\ delivered = <<>>

\* C2 as stated: after a run that passed the credential check and returned, the
\* status file holds exactly the statuses the run computed.
C2_Original ==
    (pc \in {"notify", "done"} /\ credentials.token /\ credentials.chat_id)
        => file = File("object", current_statuses)

\* C2 amended: after a run whose write of the status file succeeded, the file
\* holds exactly the clean status the run computed for every configured player
\* and no other key, whatever it held before.
C2_SnapshotIsThisRun ==
    (pc \in {"notify", "done"} /\ writeResult = "ok")
        => /\ file = File("object", current_statuses)
           /\ DOMAIN current_statuses = Names
           /\ \A p \in Names :
                  current_statuses[p] = clean_status(process_player_data(task[p]))

C2_Witness ==
    /\ pc = "done"
    /\ writeResult = "ok"
    /\ Ghost \in DOMAIN previous_statuses.map
    /\ DOMAIN file.map = Names

\* C3: no failure of one player's fetch or of the handling of its payload aborts
\* the run.
C3_NeverAborted == ~(pc = "crashed" /\ crashed_by \in {"fetch", "process"})

\* C4: a player whose result the loop has handled and whose name has no entry in
\* the snapshot loaded at the start of the run is in the changed-set.
C4_FirstObservationReported ==
    \A p \in Names :
        (Processed(p) /\ p \notin DOMAIN previous_statuses.map) => InChanged(p)

C4_Witness ==
    /\ pc = "done"
    /\ sendResult = "ok"
    /\ Ghost \in DOMAIN previous_statuses.map
    /\ \A p \in Names : p \notin DOMAIN previous_statuses.map /\ InChanged(p)

\* C5: with the bot token or the chat id unset, main returns from the credential
\* check: no GET, no read or write of the status file, no send.
C5_MissingCredentialsNoEffect ==
    (pc # "idle" /\ (~credentials.token \/ ~credentials.chat_id))
        => /\ pc \in {"init", "done"}
           /\ effects = NoEffects
           /\ loaded = "none"
           /\ writeResult = "none"
           /\ sendResult = "none"

C5_Witness ==
    /\ pc = "done"
    /\ credentials.token
    /\ ~credentials.chat_id

\* p's newest match has a 'finished' string that is no timestamp.
Unparsable(p) ==
    /\ task[p].tag = "data"
    /\ task[p].data.shape = "object"
    /\ task[p].data.matches # <<>>
    /\ task[p].data.matches[1].finished.kind = "text"

InvalidFinishTimeClean(p) == <<p, " has a match with an invalid finish time">>

\* C6 as stated: an unparsable 'finished' gives the status "{name} has a match
\* with an invalid finish time" and puts the player in the changed-set whatever
\* was stored for the player.
C6_Original ==
    \A p \in Names :
        (Processed(p) /\ Unparsable(p))
            => /\ current_statuses[p] = InvalidFinishTimeClean(p)
               /\ InChanged(p)

\* C6 amended: an unparsable 'finished' gives the status "{name} has a match with
\* an invalid finish time", and the player is in the changed-set exactly when
\* the snapshot holds no entry for the player or an entry other than that status.
C6_InvalidFinishTime ==
    \A p \in Names :
        (Processed(p) /\ Unparsable(p))
            => /\ current_statuses[p] = InvalidFinishTimeClean(p)
               /\ InChanged(p) <=>
                      ~(/\ p \in DOMAIN previous_statuses.map
                        /\ previous_statuses.map[p] = InvalidFinishTimeClean(p))

C6_Witness ==
    /\ pc = "done"
    /\ \E p \in Names :
           /\ Unparsable(p)
           /\ p \in DOMAIN previous_statuses.map
           /\ previous_statuses.map[p] = InvalidFinishTimeClean(p)
           /\ ~InChanged(p)

\* C7: a run attempts at most one send; the send, delivered or failed, ends the
\* run; and from the save on nothing changes the status file, so the file at the
\* end of the run is the same whether the send was delivered or failed.
C7_SendOnceFileKept ==
    /\ [](effects.sends <= 1)
    /\ [][pc = "notify" => (pc' = "done" /\ file' = file)]_vars
    /\ [][pc = "done" => file' = file]_vars

C7_Witness ==
    /\ pc = "done"
    /\ sendResult = "failed"
    /\ effects.sends = 1
    /\ writeResult = "ok"
    /\ file = File("object", current_statuses)

\* C8: a status file that is missing or holds no JSON object of statuses loads as
\* the empty mapping, and the run is not aborted by it.
C8_BadFileIsEmpty ==
    loaded \in {"absent", "corrupt", "other"}
        => /\ previous_statuses = Loaded("dict", EmptyMap)
           /\ crashed_by # "diff"

\* The display messages, in configuration order from the k-th player on, of the
\* players whose clean status differs from the loaded snapshot.
RECURSIVE ExpectedChanged(_)
ExpectedChanged(k) ==
    IF k > Len(Players) THEN <<>>
    ELSE LET message == process_player_data(task[Players[k]]) IN
         (IF /\ Players[k] \in DOMAIN previous_statuses.map
             /\ previous_statuses.map[Players[k]] = clean_status(message)
          THEN <<>> ELSE <<message>>)
         \o ExpectedChanged(k + 1)

\* C9: whatever the order in which the fetches complete, once the loop is over
\* the changed-set is the display messages of exactly the players whose clean
\* status differs from the loaded snapshot, in configuration order.
C9_ChangedSetInConfigOrder ==
    LoopDone => changed_statuses = ExpectedChanged(1)

C9_Witness ==
    /\ LoopDone
    /\ Len(completion) > 1
    /\ completion[1] = Players[2]
    /\ Len(changed_statuses) > 1
    /\ changed_statuses[1] = process_player_data(task[Players[1]])

====
